---- MODULE Spec2Model ----
(***************************************************************************)
(* State-machine model of the accounts application: the User table with    *)
(* its OTP session fields, the Invitation table, and the request handlers  *)
(* of accounts/views.py and accounts/serializers.py; and of the catalog    *)
(* application: the Product and Discount tables, Product.get_final_price   *)
(* and the viewsets of catalog/views.py.                                   *)
(*                                                                         *)
(* A nullable column is a set: {} is NULL (Python None), {v} holds v.      *)
(* A uuid4() value is the number of the draw that produced it; its text    *)
(* form (Python str()) is <<"uuid", n>>, and str(None) is <<"None", 0>>.   *)
(* Time is counted in minutes.                                             *)
(***************************************************************************)
EXTENDS Integers, Sequences, FiniteSets, TLC

VARIABLES
    users,        \* the User table: a sequence of rows, the row number is the pk
    invitations,  \* the Invitation table: a sequence of rows
    now,          \* timezone.now(), in minutes
    uuids,        \* how many uuid4() values have been drawn
    resp,         \* the response of the last request handled
    consumed,     \* history: the OTP references a verification has succeeded with
    activated,    \* history: the pks of the accounts verify-otp has activated
    accepts,      \* history, per invitation row: accounts created and successes reported
    reqs,         \* the requests in flight (step-level specifications only)
    products,     \* the Product table: a set of rows, each with its id
    discounts,    \* the Discount table: a set of rows, each with its id
    ids           \* the last id each of the two catalog tables has given out

vars ==
    <<users, invitations, now, uuids, resp, consumed, activated, accepts, reqs,
      products, discounts, ids>>

-----------------------------------------------------------------------------
(* Bounds of the model *)

MaxUuid == 3          \* uuid4() draws in one behaviour
NumWorkers == 2       \* request workers running concurrently

(* Program constants *)

OTP_VALID_MINUTES == 10     \* timedelta(minutes=10)
INVITE_VALID_DAYS == 3      \* timedelta(days=3)
PASSWORD_MIN_LENGTH == 8    \* RegisterSerializer.password min_length

-----------------------------------------------------------------------------
(* Input pools *)

Email(l, d) == [local |-> l, domain |-> d]
SuperEmail == Email("root", "x")
NoEmail == Email("", "")
\* the accounts the registration and OTP requests are sent for
Emails == {Email("a", "x")}
Usernames == {"a"}
\* the recipients invitations are issued to
InviteEmails == {Email("a", "x"), Email("a", "y"), Email("b", "x")}
\* a password is its text and its length
Password(t, n) == [text |-> t, len |-> n]
GoodPasswords == {Password("pw1", 8), Password("pw2", 9)}
ShortPassword == Password("short", 5)
UnusablePassword == Password("!", 0)
Codes == {"123456", "654321"}
NoRole == "<absent>"
Workers == 1 .. NumWorkers

\* the instants the clock is sampled at: around the OTP window and around
\* the invitation window
OtpInstants == {0, OTP_VALID_MINUTES, OTP_VALID_MINUTES + 1}
InviteInstants ==
    {0, 1, INVITE_VALID_DAYS * 24 * 60, INVITE_VALID_DAYS * 24 * 60 + 1}

-----------------------------------------------------------------------------
(* Text forms *)

NoneText == <<"None", 0>>
UuidText(n) == <<"uuid", n>>
EmptyText == <<"", 0>>

\* Python str() of a nullable UUID column
Str(v) == IF v = {} THEN NoneText ELSE UuidText(CHOOSE n \in v : TRUE)

RefTexts == {UuidText(n) : n \in 1 .. MaxUuid} \cup {NoneText, EmptyText}

-----------------------------------------------------------------------------
(* The User model *)

ROLE_CHOICES == {"customer", "seller", "admin"}

UserIds == DOMAIN users
ByEmail(e) == {i \in UserIds : users[i].email = e}
ByUsername(u) == {i \in UserIds : users[i].username = u}
TheUser(e) == CHOOSE i \in ByEmail(e) : TRUE

\* User.clean: a seller or customer needs a phone unless superuser
clean(u) == ~(u.role \in {"seller", "customer"} /\ ~u.phone /\ ~u.is_superuser)

\* the unique constraints of the table, for a row that is not stored yet
unique(u) == ByEmail(u.email) = {} /\ ByUsername(u.username) = {}

NewUser(username, email, password, role, phone, staff, super) ==
    [username |-> username, email |-> email, password |-> password,
     role |-> role, phone |-> phone, is_active |-> TRUE,
     is_staff |-> staff, is_superuser |-> super,
     otp_code |-> {}, otp_reference_id |-> {}, otp_created_at |-> {}]

\* mutant of create_user_ok: the table has no unique indexes
create_user_ok_NoUnique(u) == clean(u)

\* UserManager.create_user followed by User.save: full_clean, then INSERT
create_user_ok(u) == clean(u) /\ unique(u)

\* mutants of verify_otp: the window closes one minute early; no expiry check
verify_otp_Early(u, otp, reference_id) ==
    IF Str(u.otp_reference_id) # reference_id
        THEN <<FALSE, "Invalid or expired OTP session">>
    ELSE IF u.otp_code # {otp}
        THEN <<FALSE, "Invalid OTP">>
    ELSE IF u.otp_created_at # {}
            /\ \E t \in u.otp_created_at : now >= t + OTP_VALID_MINUTES
        THEN <<FALSE, "OTP expired">>
    ELSE <<TRUE, "Verified">>
verify_otp_NoExpiry(u, otp, reference_id) ==
    IF Str(u.otp_reference_id) # reference_id
        THEN <<FALSE, "Invalid or expired OTP session">>
    ELSE IF u.otp_code # {otp}
        THEN <<FALSE, "Invalid OTP">>
    ELSE <<TRUE, "Verified">>

\* User.verify_otp, against the row u as the handler read it
verify_otp(u, otp, reference_id) ==
    IF Str(u.otp_reference_id) # reference_id
        THEN <<FALSE, "Invalid or expired OTP session">>
    ELSE IF u.otp_code # {otp}
        THEN <<FALSE, "Invalid OTP">>
    ELSE IF u.otp_created_at # {}
            /\ \E t \in u.otp_created_at : now > t + OTP_VALID_MINUTES
        THEN <<FALSE, "OTP expired">>
    ELSE <<TRUE, "Verified">>

\* what a request answered: the view, the authenticated pk (0: none), the email
\* and the reference or token text it was sent with, the status and the message
Response(op, who, email, arg, status, detail) ==
    [op |-> op, who |-> who, email |-> email, arg |-> arg, status |-> status,
     detail |-> detail]

Idle == [op |-> "idle"]

-----------------------------------------------------------------------------
Init ==
    /\ users = << NewUser("root", SuperEmail, Password("pw1", 8), "customer",
                          FALSE, TRUE, TRUE) >>
    /\ invitations = << >>
    /\ now = 0
    /\ uuids = 0
    /\ resp = Response("none", 0, NoEmail, NoneText, 0, "")
    /\ consumed = {}
    /\ activated = {}
    /\ accepts = << >>
    /\ reqs = [w \in Workers |-> Idle]
    /\ products = {}
    /\ discounts = {}
    /\ ids = [product |-> 0, discount |-> 0]

Reply(r) ==
    /\ resp' = r
    /\ UNCHANGED <<products, discounts, ids, users, invitations, now, uuids, consumed, activated, accepts, reqs>>

-----------------------------------------------------------------------------
(* Registration and login *)

RoleInputs == ROLE_CHOICES \cup {NoRole, "invalidrole"}
RoleOrDefault(role) == IF role = NoRole THEN "customer" ELSE role

\* mutant of RegisterSerializer: validate() does not look at the role
RegisterSerializer_validate_AnyRole(username, email, phone, password, role) ==
    IF ByUsername(username) # {} THEN "user with this username already exists."
    ELSE IF ByEmail(email) # {} THEN "user with this email already exists."
    ELSE IF password.len < PASSWORD_MIN_LENGTH THEN "Ensure this field has at least 8 characters."
    ELSE IF role \notin ROLE_CHOICES \cup {NoRole} THEN "is not a valid choice."
    ELSE IF RoleOrDefault(role) = "seller" /\ ~phone
        THEN "Phone number is required for sellers."
    ELSE "ok"

\* RegisterSerializer: the field validators of the ModelSerializer (unique
\* username, unique email, min_length, role choices), then validate()
RegisterSerializer_validate(username, email, phone, password, role) ==
    IF ByUsername(username) # {} THEN "user with this username already exists."
    ELSE IF ByEmail(email) # {} THEN "user with this email already exists."
    ELSE IF password.len < PASSWORD_MIN_LENGTH THEN "Ensure this field has at least 8 characters."
    ELSE IF role \notin ROLE_CHOICES \cup {NoRole} THEN "is not a valid choice."
    ELSE IF RoleOrDefault(role) \notin {"seller", "customer"}
        THEN "You can only register as a seller or customer."
    ELSE IF RoleOrDefault(role) = "seller" /\ ~phone
        THEN "Phone number is required for sellers."
    ELSE "ok"

\* RegisterSerializer.create: the row after its second save
RegisterSerializer_create(u, code) ==
    [u EXCEPT !.is_active = FALSE, !.otp_code = {code}]

\* POST register/ as one step
RegisterView_post(username, email, phone, password, role, code) ==
    LET err == RegisterSerializer_validate(username, email, phone, password, role)
        u == NewUser(username, email, password, RoleOrDefault(role), phone, FALSE, FALSE)
    IN  IF err # "ok" THEN Reply(Response("register", 0, email, NoneText, 400, err))
        ELSE IF ~create_user_ok(u)
            THEN Reply(Response("register", 0, email, NoneText, 500, "ValidationError"))
        ELSE /\ users' = Append(users, RegisterSerializer_create(u, code))
             /\ resp' = Response("register", 0, email, NoneText, 201, "created")
             /\ UNCHANGED <<products, discounts, ids, invitations, now, uuids, consumed, activated, accepts, reqs>>

\* EmailAuth.authenticate: the pks the backend returns (none or one)
authenticate(email, password) ==
    {i \in ByEmail(email) : users[i].password = password}

\* POST login/
LoginView_post(email, password) ==
    LET found == authenticate(email, password)
    IN  IF found = {}
            THEN Reply(Response("login", 0, email, NoneText, 401, "Invalid email or password."))
        ELSE IF \E i \in found : ~users[i].is_active
            THEN Reply(Response("login", 0, email, NoneText, 403,
                                "Account not active. Please verify your OTP."))
        ELSE Reply(Response("login", CHOOSE i \in found : TRUE, email, NoneText, 200,
                            "Login successful."))

-----------------------------------------------------------------------------
(* The OTP session *)

\* mutants of ClearOtp: nothing is cleared; only the code is cleared
ClearOtp_Nothing(u) == u
ClearOtp_CodeOnly(u) == [u EXCEPT !.otp_code = {}]

ClearOtp(u) ==
    [u EXCEPT !.otp_code = {}, !.otp_reference_id = {}, !.otp_created_at = {}]

\* mutant of NewSession: a reference that is set is kept
NewSession_KeepReference(u, code, ref, at) ==
    [u EXCEPT !.otp_code = {code},
              !.otp_reference_id = IF @ = {} THEN {ref} ELSE @,
              !.otp_created_at = {at}]

\* the three session columns as User.generate_otp / ResendOTPView.post set them
NewSession(u, code, ref, at) ==
    [u EXCEPT !.otp_code = {code}, !.otp_reference_id = {ref},
              !.otp_created_at = {at}]

\* the history of the references a successful verification presented
Consume(u) == consumed \cup u.otp_reference_id

\* mutant of VerifyOTPView_post: a request with a wrong code burns the session
VerifyOTPView_post_Lockout(email, otp, reference_id) ==
    IF email = NoEmail \/ otp = "" \/ reference_id = EmptyText
        THEN Reply(Response("verify-otp", 0, email, reference_id, 400,
                            "Email, OTP, and reference_id are required."))
    ELSE IF ByEmail(email) = {}
        THEN Reply(Response("verify-otp", 0, email, reference_id, 404, "User not found"))
    ELSE LET i == TheUser(email)
             result == verify_otp(users[i], otp, reference_id)
         IN  IF ~result[1]
                 THEN /\ users' = [users EXCEPT ![i] =
                                      IF result[2] = "Invalid OTP" THEN ClearOtp(@) ELSE @]
                      /\ resp' = Response("verify-otp", 0, email, reference_id, 400,
                                          result[2])
                      /\ UNCHANGED <<products, discounts, ids, invitations, now, uuids,
                                     consumed, activated, accepts, reqs>>
             ELSE /\ users' = [users EXCEPT ![i] =
                                  ClearOtp([@ EXCEPT !.is_active = TRUE])]
                  /\ resp' = Response("verify-otp", 0, email, reference_id, 200,
                                      "Account verified successfully")
                  /\ consumed' = Consume(users[i])
                  /\ activated' = activated \cup {i}
                  /\ UNCHANGED <<products, discounts, ids, invitations, now, uuids, accepts, reqs>>

\* POST verify-otp/ as one step
VerifyOTPView_post(email, otp, reference_id) ==
    IF email = NoEmail \/ otp = "" \/ reference_id = EmptyText
        THEN Reply(Response("verify-otp", 0, email, reference_id, 400,
                            "Email, OTP, and reference_id are required."))
    ELSE IF ByEmail(email) = {}
        THEN Reply(Response("verify-otp", 0, email, reference_id, 404, "User not found"))
    ELSE LET i == TheUser(email)
             result == verify_otp(users[i], otp, reference_id)
         IN  IF ~result[1]
                 THEN Reply(Response("verify-otp", 0, email, reference_id, 400, result[2]))
             ELSE /\ users' = [users EXCEPT ![i] =
                                  ClearOtp([@ EXCEPT !.is_active = TRUE])]
                  /\ resp' = Response("verify-otp", 0, email, reference_id, 200,
                                      "Account verified successfully")
                  /\ consumed' = Consume(users[i])
                  /\ activated' = activated \cup {i}
                  /\ UNCHANGED <<products, discounts, ids, invitations, now, uuids, accepts, reqs>>

\* POST resend-otp/ as one step
ResendOTPView_post(email, code) ==
    IF email = NoEmail
        THEN Reply(Response("resend-otp", 0, email, NoneText, 400, "Email is required"))
    ELSE IF ByEmail(email) = {}
        THEN Reply(Response("resend-otp", 0, email, NoneText, 404, "User not found"))
    ELSE /\ uuids < MaxUuid
         /\ uuids' = uuids + 1
         /\ users' = [users EXCEPT ![TheUser(email)] =
                         NewSession(@, code, uuids + 1, now)]
         /\ resp' = Response("resend-otp", 0, email, NoneText, 200, "OTP resent successfully")
         /\ UNCHANGED <<products, discounts, ids, invitations, now, consumed, activated, accepts, reqs>>

\* POST forgot-password/ as one step: User.generate_otp on the account
ForgotPasswordView_post(email, code) ==
    IF ByEmail(email) = {}
        THEN Reply(Response("forgot-password", 0, email, NoneText, 404, "User not found"))
    ELSE /\ uuids < MaxUuid
         /\ uuids' = uuids + 1
         /\ users' = [users EXCEPT ![TheUser(email)] =
                         NewSession(@, code, uuids + 1, now)]
         /\ resp' = Response("forgot-password", 0, email, NoneText, 200,
                             "OTP sent successfully to your email")
         /\ UNCHANGED <<products, discounts, ids, invitations, now, consumed, activated, accepts, reqs>>

\* POST reset-password/ as one step
ResetPasswordView_post(email, otp, reference_id, new_password) ==
    IF ByEmail(email) = {}
        THEN Reply(Response("reset-password", 0, email, reference_id, 404, "User not found"))
    ELSE LET i == TheUser(email)
             result == verify_otp(users[i], otp, reference_id)
         IN  IF ~result[1]
                 THEN Reply(Response("reset-password", 0, email, reference_id, 400, result[2]))
             ELSE /\ users' = [users EXCEPT ![i] =
                                  ClearOtp([@ EXCEPT !.password = new_password])]
                  /\ resp' = Response("reset-password", 0, email, reference_id, 200,
                                      "Password reset successful")
                  /\ consumed' = Consume(users[i])
                  /\ UNCHANGED <<products, discounts, ids, invitations, now, uuids, activated, accepts, reqs>>

\* POST change-password/ as one step, by the authenticated account `actor`
ChangePasswordView_post(actor, old_password, new_password) ==
    /\ actor \in UserIds
    /\ users[actor].is_active
    /\ IF users[actor].password # old_password
           THEN Reply(Response("change-password", actor, users[actor].email, NoneText, 400,
                               "Incorrect old password"))
       ELSE /\ users' = [users EXCEPT ![actor].password = new_password]
            /\ resp' = Response("change-password", actor, users[actor].email, NoneText, 200,
                                "Password changed successfully")
            /\ UNCHANGED <<products, discounts, ids, invitations, now, uuids, consumed, activated, accepts, reqs>>

-----------------------------------------------------------------------------
(* Invitations *)

InvIds == DOMAIN invitations
InvByEmail(e) == {j \in InvIds : invitations[j].email = e}
\* Invitation.objects.get(token=token): the rows whose token has this text
InvByToken(token) == {j \in InvIds : UuidText(invitations[j].token) = token}

\* default_expires_at
default_expires_at == now + INVITE_VALID_DAYS * 24 * 60

\* mutant of is_valid: an invitation is still valid at expires_at
is_valid_Inclusive(inv) == ~inv.is_used /\ inv.expires_at >= now

\* Invitation.is_valid
is_valid(inv) == ~inv.is_used /\ inv.expires_at > now

\* mutant of mark_used: the flag is not written
mark_used_Nothing(inv) == inv

\* Invitation.mark_used
mark_used(inv) == [inv EXCEPT !.is_used = TRUE]

\* the request's user: pk 0 is the anonymous user
Anonymous == 0
Authenticated(actor) == actor \in UserIds /\ users[actor].is_active

\* mutant of IsSuperAdmin.has_permission: any authenticated user passes
IsSuperAdmin_has_permission_Any(actor) ==
    actor # Anonymous /\ Authenticated(actor)

\* IsSuperAdmin.has_permission
IsSuperAdmin_has_permission(actor) ==
    actor # Anonymous /\ Authenticated(actor) /\ users[actor].is_superuser

\* mutant of AdminInviteSerializer: the email field has no unique validator
AdminInviteSerializer_validate_NoUnique(actor, email) ==
    IF ~users[actor].is_superuser THEN "Only super admins can invite new admins."
    ELSE "ok"

\* AdminInviteSerializer: the unique validator of the email field, then validate()
AdminInviteSerializer_validate(actor, email) ==
    IF InvByEmail(email) # {} THEN "invitation with this email already exists."
    ELSE IF ~users[actor].is_superuser THEN "Only super admins can invite new admins."
    ELSE "ok"

\* AdminInviteSerializer.create: the row Invitation.objects.create inserts
AdminInviteSerializer_create(actor, email, token) ==
    [email |-> email, token |-> token, invited_by |-> actor, is_used |-> FALSE,
     created_at |-> now, expires_at |-> default_expires_at]

NoAccepts == [accounts |-> 0, successes |-> 0]

\* POST invite/admin/
AdminInviteView_post(actor, email) ==
    /\ actor = Anonymous \/ Authenticated(actor)
    /\ IF ~IsSuperAdmin_has_permission(actor)
           THEN Reply(Response("invite", actor, email, NoneText, 403,
                               "You do not have permission to perform this action."))
       ELSE LET err == AdminInviteSerializer_validate(actor, email)
            IN  IF err # "ok" THEN Reply(Response("invite", actor, email, NoneText, 400, err))
                ELSE IF InvByEmail(email) # {}   \* the unique index of the table
                    THEN Reply(Response("invite", actor, email, NoneText, 500,
                                        "IntegrityError"))
                ELSE /\ uuids < MaxUuid
                     /\ uuids' = uuids + 1
                     /\ invitations' = Append(invitations,
                            AdminInviteSerializer_create(actor, email, uuids + 1))
                     /\ accepts' = Append(accepts, NoAccepts)
                     /\ resp' = Response("invite", actor, email, NoneText, 201, "created")
                     /\ UNCHANGED <<products, discounts, ids, users, now, consumed, activated, reqs>>

\* django's validate_password, as far as the pools go: the length rule
validate_password(password) == password.len >= PASSWORD_MIN_LENGTH

\* AcceptAdminInviteSerializer.validate
AcceptAdminInviteSerializer_validate(token, password) ==
    IF InvByToken(token) = {} THEN "Invalid or expired invitation token."
    ELSE IF \E j \in InvByToken(token) : ~is_valid(invitations[j])
        THEN "Invitation expired or already used."
    ELSE IF ~validate_password(password) THEN "This password is too short."
    ELSE "ok"

\* AcceptAdminInviteSerializer.create: the account create_user builds
InvitedUser(inv) ==
    NewUser(inv.email.local, inv.email, UnusablePassword, "admin", FALSE, TRUE, FALSE)

\* POST invite/admin/accept/ as one step
AcceptAdminInviteView_post(token, password) ==
    LET err == AcceptAdminInviteSerializer_validate(token, password)
    IN  IF err # "ok" THEN Reply(Response("accept", 0, NoEmail, token, 400, err))
        ELSE LET j == CHOOSE k \in InvByToken(token) : TRUE
                 u == InvitedUser(invitations[j])
             IN  IF ~create_user_ok(u)
                     THEN Reply(Response("accept", 0, u.email, token, 500, "ValidationError"))
                 ELSE /\ users' = Append(users, [u EXCEPT !.password = password])
                      /\ invitations' = [invitations EXCEPT ![j] = mark_used(@)]
                      /\ accepts' = [accepts EXCEPT ![j] =
                             [accounts |-> @.accounts + 1, successes |-> @.successes + 1]]
                      /\ resp' = Response("accept", Len(users) + 1, u.email, token, 201, "created")
                      /\ UNCHANGED <<products, discounts, ids, now, uuids, consumed, activated, reqs>>

-----------------------------------------------------------------------------
Tick(t) ==
    /\ t > now
    /\ now' = t
    /\ UNCHANGED <<products, discounts, ids, users, invitations, uuids, resp, consumed, activated, accepts, reqs>>

Register ==
    \E username \in Usernames, email \in Emails, phone \in BOOLEAN,
       password \in {Password("pw1", 8), ShortPassword}, role \in RoleInputs,
       code \in Codes :
        RegisterView_post(username, email, phone, password, role, code)

Login ==
    \E email \in Emails \cup {SuperEmail}, password \in GoodPasswords :
        LoginView_post(email, password)

OtpInputs == Codes \cup {""}

VerifyOTP ==
    \E email \in Emails \cup {NoEmail}, otp \in OtpInputs,
       reference_id \in RefTexts :
        VerifyOTPView_post(email, otp, reference_id)

ResendOTP ==
    \E email \in Emails \cup {NoEmail}, code \in Codes :
        ResendOTPView_post(email, code)

ForgotPassword ==
    \E email \in Emails, code \in Codes : ForgotPasswordView_post(email, code)

ResetPassword ==
    \E email \in Emails, otp \in Codes, reference_id \in RefTexts \ {EmptyText},
       new_password \in GoodPasswords :
        ResetPasswordView_post(email, otp, reference_id, new_password)

ChangePassword ==
    \E email \in Emails, old_password \in GoodPasswords,
       new_password \in GoodPasswords : \E actor \in ByEmail(email) :
        ChangePasswordView_post(actor, old_password, new_password)

Clock == \E t \in OtpInstants : Tick(t)

Next ==
    \/ Register
    \/ Login
    \/ VerifyOTP
    \/ ResendOTP
    \/ ForgotPassword
    \/ ResetPassword
    \/ ChangePassword
    \/ Clock

\* registration, login and the OTP session, each request handled in one step
Spec == Init /\ [][Next]_vars

-----------------------------------------------------------------------------
AcceptPasswords == {Password("pw1", 8), ShortPassword}
TokenTexts == {UuidText(n) : n \in 1 .. MaxUuid + 1}

AdminInvite ==
    \E actor \in UserIds \cup {Anonymous}, email \in InviteEmails :
        AdminInviteView_post(actor, email)

AcceptAdminInvite ==
    \E token \in TokenTexts, password \in AcceptPasswords :
        AcceptAdminInviteView_post(token, password)

InviteLogin ==
    \E email \in InviteEmails \cup {SuperEmail}, password \in GoodPasswords :
        LoginView_post(email, password)

InviteClock == \E t \in InviteInstants : Tick(t)

NextInvite ==
    \/ AdminInvite
    \/ AcceptAdminInvite
    \/ InviteLogin
    \/ InviteClock

\* issuing and accepting invitations, each request handled in one step
SpecInvite == Init /\ [][NextInvite]_vars

-----------------------------------------------------------------------------
(* Registration step by step: RegisterSerializer.create saves twice, and     *)
(* other requests are handled between the two saves.                         *)

\* serializer.is_valid and User.objects.create_user(**validated_data)
RegisterCreate(w, username, email, phone, password, role, code) ==
    /\ reqs[w] = Idle
    /\ LET err == RegisterSerializer_validate(username, email, phone, password, role)
           u == NewUser(username, email, password, RoleOrDefault(role), phone,
                        FALSE, FALSE)
       IN  IF err # "ok" THEN Reply(Response("register", 0, email, NoneText, 400, err))
           ELSE IF ~create_user_ok(u)
               THEN Reply(Response("register", 0, email, NoneText, 500,
                                   "ValidationError"))
           ELSE /\ users' = Append(users, u)
                /\ reqs' = [reqs EXCEPT ![w] =
                       [op |-> "register", pk |-> Len(users) + 1,
                        user |-> u, code |-> code]]
                /\ UNCHANGED <<products, discounts, ids, invitations, now, uuids, resp, consumed, activated,
                               accepts>>

\* user.is_active = False; user.otp_code = ...; user.save(): every column of
\* the row is written from the object in memory
RegisterSave(w) ==
    /\ reqs[w] # Idle
    /\ reqs[w].op = "register"
    /\ users' = [users EXCEPT ![reqs[w].pk] =
                    RegisterSerializer_create(reqs[w].user, reqs[w].code)]
    /\ resp' = Response("register", 0, reqs[w].user.email, NoneText, 201, "created")
    /\ reqs' = [reqs EXCEPT ![w] = Idle]
    /\ UNCHANGED <<products, discounts, ids, invitations, now, uuids, consumed, activated, accepts>>

RegisterBegin ==
    \E w \in Workers, username \in Usernames, email \in Emails, phone \in BOOLEAN,
       password \in {Password("pw1", 8), ShortPassword}, role \in RoleInputs,
       code \in Codes :
        RegisterCreate(w, username, email, phone, password, role, code)

RegisterEnd == \E w \in Workers : RegisterSave(w)

NextRegister ==
    \/ RegisterBegin
    \/ RegisterEnd
    \/ Login
    \/ VerifyOTP
    \/ ResendOTP
    \/ Clock

\* registration in its two saves, with login, verify-otp and resend-otp
\* requests handled in between
SpecRegister == Init /\ [][NextRegister]_vars

-----------------------------------------------------------------------------
(* Accepting an invitation step by step: the validity read, the INSERT of    *)
(* the account, the save of its password and the write of the used flag are  *)
(* separate statements, and other requests are handled in between.           *)

\* AcceptAdminInviteSerializer.validate: the invitation is read
AcceptValidate(w, token, password) ==
    /\ reqs[w] = Idle
    /\ LET err == AcceptAdminInviteSerializer_validate(token, password)
       IN  IF err # "ok" THEN Reply(Response("accept", 0, NoEmail, token, 400, err))
           ELSE /\ reqs' = [reqs EXCEPT ![w] =
                       [op |-> "accept", pc |-> "create_user", token |-> token,
                        inv |-> CHOOSE k \in InvByToken(token) : TRUE,
                        password |-> password, pk |-> 0]]
                /\ UNCHANGED <<products, discounts, ids, users, invitations, now, uuids, resp, consumed,
                               activated, accepts>>

\* User.objects.create_user(...): full_clean, then INSERT under the unique
\* indexes of the table
AcceptCreateUser(w) ==
    /\ reqs[w] # Idle
    /\ reqs[w].op = "accept"
    /\ reqs[w].pc = "create_user"
    /\ LET j == reqs[w].inv
           u == InvitedUser(invitations[j])
       IN  IF ~create_user_ok(u)
               THEN /\ resp' = Response("accept", 0, u.email, reqs[w].token, 500,
                                        "ValidationError")
                    /\ reqs' = [reqs EXCEPT ![w] = Idle]
                    /\ UNCHANGED <<products, discounts, ids, users, invitations, now, uuids, consumed,
                                   activated, accepts>>
           ELSE /\ users' = Append(users, u)
                /\ accepts' = [accepts EXCEPT ![j].accounts = @ + 1]
                /\ reqs' = [reqs EXCEPT ![w].pc = "set_password",
                                        ![w].pk = Len(users) + 1]
                /\ UNCHANGED <<products, discounts, ids, invitations, now, uuids, resp, consumed, activated>>

\* user.set_password(password); user.save(): every column of the row is
\* written from the object in memory
AcceptSetPassword(w) ==
    /\ reqs[w] # Idle
    /\ reqs[w].op = "accept"
    /\ reqs[w].pc = "set_password"
    /\ users' = [users EXCEPT ![reqs[w].pk] =
                    [InvitedUser(invitations[reqs[w].inv])
                        EXCEPT !.password = reqs[w].password]]
    /\ reqs' = [reqs EXCEPT ![w].pc = "mark_used"]
    /\ UNCHANGED <<products, discounts, ids, invitations, now, uuids, resp, consumed, activated, accepts>>

\* invitation.mark_used(), then the 201 response
AcceptMarkUsed(w) ==
    /\ reqs[w] # Idle
    /\ reqs[w].op = "accept"
    /\ reqs[w].pc = "mark_used"
    /\ invitations' = [invitations EXCEPT ![reqs[w].inv] = mark_used(@)]
    /\ accepts' = [accepts EXCEPT ![reqs[w].inv].successes = @ + 1]
    /\ resp' = Response("accept", reqs[w].pk, invitations[reqs[w].inv].email,
                        reqs[w].token, 201, "created")
    /\ reqs' = [reqs EXCEPT ![w] = Idle]
    /\ UNCHANGED <<products, discounts, ids, users, now, uuids, consumed, activated>>

AcceptBegin ==
    \E w \in Workers, token \in TokenTexts, password \in AcceptPasswords :
        AcceptValidate(w, token, password)

AcceptCreate == \E w \in Workers : AcceptCreateUser(w)

AcceptPassword == \E w \in Workers : AcceptSetPassword(w)

AcceptEnd == \E w \in Workers : AcceptMarkUsed(w)

\* the superuser of Init issues invitations
AcceptIssue ==
    \E email \in {Email("a", "x"), Email("a", "y")} : AdminInviteView_post(1, email)

AcceptClock == \E t \in {0, INVITE_VALID_DAYS * 24 * 60 + 1} : Tick(t)

NextAccept ==
    \/ AcceptIssue
    \/ AcceptBegin
    \/ AcceptCreate
    \/ AcceptPassword
    \/ AcceptEnd
    \/ AcceptClock

\* accept in its four statements, run by concurrent workers, with invitations
\* issued and the clock advancing in between
SpecAccept == Init /\ [][NextAccept]_vars

-----------------------------------------------------------------------------
(* Properties of the OTP session, under Spec *)

\* the stored session of account i is the one the request presents
Presents(i, otp, reference_id) ==
    /\ users[i].otp_reference_id # {}
    /\ Str(users[i].otp_reference_id) = reference_id
    /\ users[i].otp_code = {otp}

\* minutes since the stored session of account i was issued
Age(i) == now - (CHOOSE t \in users[i].otp_created_at : TRUE)

ConsumedRefs == {UuidText(n) : n \in consumed}

\* C1, first half: a verification that presents the stored code and the stored
\* reference of a generated session within its validity window succeeds.
C1_Succeeds(email, otp, reference_id) ==
    \A i \in ByEmail(email) :
        Presents(i, otp, reference_id) /\ users[i].otp_created_at # {}
            /\ Age(i) <= OTP_VALID_MINUTES
        => resp'.status = 200

\* C1, second half: a verification that presents the reference of a session
\* a verification has already succeeded with fails, whatever has been generated
\* since.
C1_Replay(reference_id) ==
    reference_id \in ConsumedRefs => resp'.status = 400 /\ users' = users

\* C1: after an OTP session is generated, verify-otp or reset-password with the
\* stored code and reference within the validity window succeeds, and every
\* later verification with those values fails.
C1_SingleUse ==
    [][ /\ resp'.op = "verify-otp" =>
              \A otp \in OtpInputs :
                  VerifyOTPView_post(resp'.email, otp, resp'.arg)
                      => C1_Succeeds(resp'.email, otp, resp'.arg) /\ C1_Replay(resp'.arg)
        /\ resp'.op = "reset-password" =>
              \A otp \in Codes, new_password \in GoodPasswords :
                  ResetPasswordView_post(resp'.email, otp, resp'.arg, new_password)
                      => C1_Succeeds(resp'.email, otp, resp'.arg) /\ C1_Replay(resp'.arg)
      ]_vars

\* a verification has just been refused the reference of a session that an
\* earlier verification succeeded with
C1_Witness ==
    /\ resp.op \in {"verify-otp", "reset-password"}
    /\ resp.status = 400
    /\ resp.arg \in ConsumedRefs

\* C2, for one request: with the stored code and reference of a session issued
\* at T, later than T + 10 minutes the answer is 'OTP expired' and nothing is
\* written; up to and including T + 10 minutes the request succeeds.
C2_Window(email, otp, reference_id) ==
    \A i \in ByEmail(email) :
        Presents(i, otp, reference_id) /\ users[i].otp_created_at # {}
        => IF Age(i) > OTP_VALID_MINUTES
               THEN /\ resp'.status = 400
                    /\ resp'.detail = "OTP expired"
                    /\ users' = users
               ELSE resp'.status = 200

\* C2: a verification with the correct code and reference is rejected as
\* expired later than T + 10 minutes and accepted up to and including T + 10.
C2_ExpiryWindow ==
    [][ /\ resp'.op = "verify-otp" =>
              \A otp \in OtpInputs :
                  VerifyOTPView_post(resp'.email, otp, resp'.arg)
                      => C2_Window(resp'.email, otp, resp'.arg)
        /\ resp'.op = "reset-password" =>
              \A otp \in Codes, new_password \in GoodPasswords :
                  ResetPasswordView_post(resp'.email, otp, resp'.arg, new_password)
                      => C2_Window(resp'.email, otp, resp'.arg)
      ]_vars

\* the stored session was refused as expired at T + 11 minutes
C2_Witness ==
    /\ resp.op \in {"verify-otp", "reset-password"}
    /\ resp.detail = "OTP expired"
    /\ \E i \in ByEmail(resp.email) :
           /\ users[i].otp_created_at # {}
           /\ Str(users[i].otp_reference_id) = resp.arg
           /\ Age(i) = OTP_VALID_MINUTES + 1

\* the stored session of account i is presented by reference after its window
ExpiredSession(i, reference_id) ==
    /\ users[i].otp_created_at # {}
    /\ Str(users[i].otp_reference_id) = reference_id
    /\ Age(i) > OTP_VALID_MINUTES

\* C3 as stated: after issued_at + 10 minutes the outcome is Expired whether or
\* not the submitted code is the stored one.
C3_Stated(email, otp, reference_id) ==
    \A i \in ByEmail(email) :
        ExpiredSession(i, reference_id) => resp'.detail = "OTP expired"

C3_ExpiredWhateverCode ==
    [][ /\ resp'.op = "verify-otp" =>
              \A otp \in OtpInputs :
                  VerifyOTPView_post(resp'.email, otp, resp'.arg)
                      => C3_Stated(resp'.email, otp, resp'.arg)
        /\ resp'.op = "reset-password" =>
              \A otp \in Codes, new_password \in GoodPasswords :
                  ResetPasswordView_post(resp'.email, otp, resp'.arg, new_password)
                      => C3_Stated(resp'.email, otp, resp'.arg)
      ]_vars

\* C3 as amended, for one request: after issued_at + 10 minutes the request is
\* rejected and writes nothing whatever the code; the message is 'OTP expired'
\* when the code is the stored one and 'Invalid OTP' when it differs.
C3_Rejected(email, otp, reference_id) ==
    \A i \in ByEmail(email) :
        ExpiredSession(i, reference_id) /\ otp # ""
        => /\ resp'.status = 400
           /\ users' = users
           /\ resp'.detail = IF users[i].otp_code = {otp}
                                 THEN "OTP expired" ELSE "Invalid OTP"

\* C3 (amended): every verification after issued_at + 10 minutes is rejected
\* whatever the code; it is reported as expired only when the code matches,
\* since the code is compared before the age.
C3_RejectedWhateverCode ==
    [][ /\ resp'.op = "verify-otp" =>
              \A otp \in OtpInputs :
                  VerifyOTPView_post(resp'.email, otp, resp'.arg)
                      => C3_Rejected(resp'.email, otp, resp'.arg)
        /\ resp'.op = "reset-password" =>
              \A otp \in Codes, new_password \in GoodPasswords :
                  ResetPasswordView_post(resp'.email, otp, resp'.arg, new_password)
                      => C3_Rejected(resp'.email, otp, resp'.arg)
      ]_vars

\* an expired session was presented with another code and refused as 'Invalid OTP'
C3_Witness ==
    /\ resp.op \in {"verify-otp", "reset-password"}
    /\ resp.detail = "Invalid OTP"
    /\ \E i \in ByEmail(resp.email) : ExpiredSession(i, resp.arg)

OtpEmpty(u) ==
    u.otp_code = {} /\ u.otp_reference_id = {} /\ u.otp_created_at = {}

\* C4, the states: after a successful verify-otp the account is active and its
\* three OTP columns are empty, after a successful reset-password they are
\* empty, and no account ever holds again a reference a verification succeeded
\* with.
C4_Cleared ==
    /\ resp.op = "verify-otp" /\ resp.status = 200
       => \A i \in ByEmail(resp.email) : users[i].is_active /\ OtpEmpty(users[i])
    /\ resp.op = "reset-password" /\ resp.status = 200
       => \A i \in ByEmail(resp.email) : OtpEmpty(users[i])
    /\ \A i \in UserIds : users[i].otp_reference_id \cap consumed = {}

\* C4, the steps: the successful request changes the account's row once, and
\* the row it leaves is the row it found with active set (verify-otp) or the
\* password replaced (reset-password) and the three OTP columns empty.
C4_OneUpdate ==
    /\ resp'.op = "verify-otp" /\ resp'.status = 200 =>
          \A otp \in OtpInputs :
              VerifyOTPView_post(resp'.email, otp, resp'.arg) =>
                  \A i \in ByEmail(resp'.email) :
                      users' = [users EXCEPT ![i] =
                          [@ EXCEPT !.is_active = TRUE, !.otp_code = {},
                                    !.otp_reference_id = {}, !.otp_created_at = {}]]
    /\ resp'.op = "reset-password" /\ resp'.status = 200 =>
          \A otp \in Codes, new_password \in GoodPasswords :
              ResetPasswordView_post(resp'.email, otp, resp'.arg, new_password) =>
                  \A i \in ByEmail(resp'.email) :
                      users' = [users EXCEPT ![i] =
                          [@ EXCEPT !.password = new_password, !.otp_code = {},
                                    !.otp_reference_id = {}, !.otp_created_at = {}]]

\* C4: a successful verify-otp sets active and empties the three OTP columns in
\* one update, a successful reset-password sets the password and empties them
\* in one update, and no state after a success holds the verified session.
C4_ClearedAtOnce == []C4_Cleared /\ [][C4_OneUpdate]_vars

\* reset-password has just succeeded with a generated session
C4_Witness ==
    /\ resp.op = "reset-password"
    /\ resp.status = 200
    /\ resp.arg \in ConsumedRefs

-----------------------------------------------------------------------------
(* Properties of invitations, under SpecInvite *)

\* C6, the states: an invitation has at most one successful accept and at most
\* one account; once accepted it is used, and its email has one account.
C6_AtMostOnce ==
    \A j \in InvIds :
        /\ accepts[j].successes <= 1
        /\ accepts[j].accounts <= 1
        /\ accepts[j].successes = 1 => invitations[j].is_used
        /\ Cardinality(ByEmail(invitations[j].email)) <= 1

\* C6, the steps: a used invitation stays used, and an accept that presents
\* the token of a used invitation is rejected and creates no account.
C6_StaysUsed ==
    /\ \A j \in InvIds :
           invitations[j].is_used => j \in DOMAIN invitations' /\ invitations'[j].is_used
    /\ resp'.op = "accept" =>
           \A password \in AcceptPasswords :
               AcceptAdminInviteView_post(resp'.arg, password) =>
                   \A j \in InvByToken(resp'.arg) :
                       invitations[j].is_used =>
                           /\ resp'.status = 400
                           /\ users' = users
                           /\ accepts' = accepts

\* C6: accept succeeds at most once per invitation; after it the used flag is
\* true for ever, and a later accept with the same token is rejected and
\* creates no second account.
C6_AcceptOnce == []C6_AtMostOnce /\ [][C6_StaysUsed]_vars

\* an accept has just been refused the token of an invitation accepted before
C6_Witness ==
    /\ resp.op = "accept"
    /\ resp.status = 400
    /\ \E j \in InvByToken(resp.arg) :
           invitations[j].is_used /\ accepts[j].successes = 1

\* the claim's notion of validity: unused and not yet at expires_at
Unexpired(inv) == ~inv.is_used /\ now < inv.expires_at

\* C8, the states: is_valid holds exactly of the unused invitations with
\* now < expires_at, and expires_at is three days after the creation.
C8_ValidExactly ==
    \A j \in InvIds :
        /\ is_valid(invitations[j]) <=> Unexpired(invitations[j])
        /\ invitations[j].expires_at
               = invitations[j].created_at + INVITE_VALID_DAYS * 24 * 60

\* C8, the steps: an accept that presents the token of an invitation that is
\* used, or whose expires_at has been reached, is rejected and changes neither
\* the accounts nor the invitation.
C8_InvalidRejected ==
    resp'.op = "accept" =>
        \A password \in AcceptPasswords :
            AcceptAdminInviteView_post(resp'.arg, password) =>
                \A j \in InvByToken(resp'.arg) :
                    ~Unexpired(invitations[j]) =>
                        /\ resp'.status = 400
                        /\ resp'.detail = "Invitation expired or already used."
                        /\ users' = users
                        /\ invitations' = invitations
                        /\ accepts' = accepts

\* C8: an invitation is valid exactly when it is unused and now < expires_at
\* (creation + 3 days); accept with the token of an invitation that is not
\* valid is rejected, creates no account and leaves the invitation unchanged.
C8_ValidityDecidesAccept == []C8_ValidExactly /\ [][C8_InvalidRejected]_vars

\* an accept has just been refused an unused invitation at the very instant
\* of its expires_at
C8_Witness ==
    /\ resp.op = "accept"
    /\ resp.status = 400
    /\ \E j \in InvByToken(resp.arg) :
           ~invitations[j].is_used /\ now = invitations[j].expires_at

\* the inviter holds the privilege the code asks for
Privileged(actor) == actor \in UserIds /\ users[actor].is_superuser

\* C9, the states: every invitation was issued by a superuser; a request by
\* anyone else was answered 403; and each of the two checks refuses everyone
\* who is not a superuser.
C9_OnlySuperusers ==
    /\ \A j \in InvIds : Privileged(invitations[j].invited_by)
    /\ resp.op = "invite" /\ ~Privileged(resp.who) => resp.status = 403
    /\ \A actor \in UserIds :
           ~users[actor].is_superuser =>
               /\ ~IsSuperAdmin_has_permission(actor)
               /\ \A email \in InviteEmails :
                      AdminInviteSerializer_validate(actor, email) # "ok"
    /\ ~IsSuperAdmin_has_permission(Anonymous)

\* C9, the steps: a request to issue by an inviter who is not a superuser
\* creates no invitation.
C9_Forbidden ==
    resp'.op = "invite" /\ AdminInviteView_post(resp'.who, resp'.email)
        /\ ~Privileged(resp'.who)
    => resp'.status = 403 /\ invitations' = invitations

\* C9: issue fails with Forbidden unless the inviter is a superuser; such a
\* request creates no invitation, and the privilege is checked by the
\* permission class and again by the serializer.
C9_IssueNeedsPrivilege == []C9_OnlySuperusers /\ [][C9_Forbidden]_vars

\* an active admin-role account that is no superuser has just been refused
C9_Witness ==
    /\ resp.op = "invite"
    /\ resp.status = 403
    /\ resp.who \in UserIds
    /\ users[resp.who].role = "admin"
    /\ users[resp.who].is_active

\* C10, the states: no two invitations have the same recipient email.
C10_UniqueEmail ==
    \A j, k \in InvIds :
        invitations[j].email = invitations[k].email => j = k

\* C10, the steps: issuing for an email that has an invitation fails and
\* creates nothing (with the duplicate-email message when the inviter passes
\* the permission check); every invitation is kept, and only its used flag may
\* change, from false to true.
C10_KeptAndRefused ==
    /\ \A j \in InvIds :
           /\ j \in DOMAIN invitations'
           /\ invitations'[j] \in {invitations[j], mark_used(invitations[j])}
    /\ resp'.op = "invite" /\ AdminInviteView_post(resp'.who, resp'.email)
           /\ InvByEmail(resp'.email) # {}
       => /\ invitations' = invitations
          /\ IF Privileged(resp'.who)
                 THEN /\ resp'.status = 400
                      /\ resp'.detail = "invitation with this email already exists."
                 ELSE resp'.status = 403

\* C10: there is at most one invitation per recipient email; issuing for an
\* email that already has one (unused, used or expired) fails and creates
\* nothing, and no operation deletes or re-opens an invitation.
C10_OneInvitationPerEmail == []C10_UniqueEmail /\ [][C10_KeptAndRefused]_vars

\* a superuser has just been refused a second invitation for the email of an
\* invitation that is used
C10_Witness ==
    /\ resp.op = "invite"
    /\ resp.status = 400
    /\ \E j \in InvByEmail(resp.email) : invitations[j].is_used

-----------------------------------------------------------------------------
(* Properties of registration and login, under SpecRegister *)

\* the accounts RegisterSerializer.create makes: not superusers, with the
\* role of a customer or a seller
Registered(i) == ~users[i].is_superuser /\ users[i].role \in {"customer", "seller"}

\* C5: an account that registration created gets no tokens from login before
\* a verify-otp has succeeded for it, in every state the requests can reach,
\* the states between the two saves of registration included.
C5_NoTokensBeforeVerify ==
    resp.op = "login" /\ resp.status = 200 /\ resp.who \in UserIds
        => (Registered(resp.who) => resp.who \in activated)

\* C5, second sentence: login answers tokens only for the account of the
\* submitted email, with its stored password submitted and active = true.
C5_TokensNeedPasswordAndActive ==
    [][ resp'.op = "login" /\ resp'.status = 200
            => \A password \in GoodPasswords \cup {ShortPassword} :
                   LoginView_post(resp'.email, password)
                       => /\ resp'.who \in ByEmail(resp'.email)
                          /\ users[resp'.who].password = password
                          /\ users[resp'.who].is_active
      ]_vars

\* login has answered tokens for a registered account whose registration is
\* between its two saves
C5_Witness ==
    /\ resp.op = "login"
    /\ resp.status = 200
    /\ \E w \in Workers :
           /\ reqs[w] # Idle
           /\ reqs[w].op = "register"
           /\ reqs[w].pk = resp.who

-----------------------------------------------------------------------------
(* Properties of concurrent accepts, under SpecAccept *)

\* C7: under every interleaving of concurrent accepts of one token, at most
\* one account is created for the invitation and at most one request
\* answers success.
C7_AtMostOneAccount ==
    \A j \in InvIds :
        /\ accepts[j].accounts <= 1
        /\ accepts[j].successes <= 1
        /\ Cardinality(ByEmail(invitations[j].email)) <= 1

\* two accepts of one token have both passed the validity read; one has
\* created the account and has not marked the invitation used yet, and the
\* other has just failed to create a second account
C7_Witness ==
    /\ resp.op = "accept"
    /\ resp.status = 500
    /\ \E w \in Workers :
           /\ reqs[w] # Idle
           /\ reqs[w].op = "accept"
           /\ reqs[w].pc \in {"set_password", "mark_used"}
           /\ reqs[w].token = resp.arg
           /\ accepts[reqs[w].inv].accounts = 1
           /\ ~invitations[reqs[w].inv].is_used

-----------------------------------------------------------------------------
(* The catalog: Product.get_final_price                                      *)
(*                                                                           *)
(* Money is a Decimal with 2 places, kept as a whole number of cents; the    *)
(* value of a discount is a Decimal with 2 places, kept in hundredths too    *)
(* (cents when the rule is fixed, hundredths of a percent when it is a       *)
(* percent rule).  price * value / 100, in cents, is price * value / 10000:  *)
(* discount amounts are kept in 1/10000 of a cent, where they are exact.     *)

AmountScale == 10000

PERCENT == "percent"
FIXED == "fixed"

ProductIds == {p.id : p \in products}
DiscountIds == {d.id : d \in discounts}
ProductById(id) == CHOOSE p \in products : p.id = id
DiscountById(id) == CHOOSE d \in discounts : d.id = id

\* a Product row and a Discount row
Product(id, owner, price) == [id |-> id, owner |-> owner, price |-> price]
Discount(id, product, created_by, discount_type, value, start_at, end_at, active) ==
    [id |-> id, product |-> product, created_by |-> created_by,
     discount_type |-> discount_type, value |-> value,
     start_at |-> start_at, end_at |-> end_at, active |-> active]

Max(S) == CHOOSE x \in S : \A y \in S : y <= x

\* mutant of eligible: the window is open at both ends
eligible_Exclusive(d, p) ==
    /\ d.product = p.id
    /\ d.active
    /\ d.start_at = {} \/ \E t \in d.start_at : t < now
    /\ d.end_at = {} \/ \E t \in d.end_at : t > now

\* the two filters of get_final_price: product and active, then the window
eligible(d, p) ==
    /\ d.product = p.id
    /\ d.active
    /\ d.start_at = {} \/ \E t \in d.start_at : t <= now
    /\ d.end_at = {} \/ \E t \in d.end_at : t >= now

\* the amount of one rule, in 1/10000 of a cent
amount(p, d) ==
    IF d.discount_type = PERCENT THEN p.price * d.value
    ELSE d.value * AmountScale

\* mutant of best: the amounts are added up
best_Sum(p, ds) ==
    LET RECURSIVE Sum(_)
        Sum(S) == IF S = {} THEN 0
                  ELSE LET d == CHOOSE x \in S : TRUE
                       IN  amount(p, d) + Sum(S \ {d})
    IN  Sum(ds)

\* best = Decimal('0'); for discount in discounts: best = max(best, amount)
best(p, ds) == Max({0} \cup {amount(p, d) : d \in ds})

\* Decimal.quantize(Decimal('0.01'), rounding=ROUND_HALF_UP) of an amount in
\* 1/10000 of a cent, giving cents: ties go away from zero
quantize(x) ==
    IF x >= 0 THEN (x + AmountScale \div 2) \div AmountScale
    ELSE -((-x + AmountScale \div 2) \div AmountScale)

\* mutant of FinalPrice: the result is not clamped at zero
FinalPrice_Unclamped(p, ds) ==
    quantize(p.price * AmountScale - best(p, {d \in ds : eligible(d, p)}))

\* get_final_price of product p with ds as the Discount table
FinalPrice(p, ds) ==
    LET final == quantize(p.price * AmountScale
                          - best(p, {d \in ds : eligible(d, p)}))
    IN  Max({final, 0})

get_final_price(p) == FinalPrice(p, discounts)

\* GET products/<id>/: ProductDetailSerializer with its final_price
ProductViewSet_retrieve(id) ==
    IF id \notin ProductIds
        THEN Reply(Response("product-retrieve", 0, NoEmail, id, 404, "Not found."))
    ELSE Reply(Response("product-retrieve", 0, NoEmail, id, 200,
                        get_final_price(ProductById(id))))

-----------------------------------------------------------------------------
(* The accounts the catalog requests come from: the superuser, two sellers   *)
(* and a customer who registered and verified, and an admin who accepted     *)
(* the superuser's invitation.                                               *)

CatalogUsers ==
    << NewUser("root", SuperEmail, Password("pw1", 8), "customer", FALSE, TRUE, TRUE),
       NewUser("s1", Email("s1", "x"), Password("pw1", 8), "seller", TRUE, FALSE, FALSE),
       NewUser("s2", Email("s2", "x"), Password("pw1", 8), "seller", TRUE, FALSE, FALSE),
       NewUser("adm", Email("adm", "x"), Password("pw1", 8), "admin", FALSE, TRUE, FALSE),
       NewUser("c", Email("c", "x"), Password("pw1", 8), "customer", TRUE, FALSE, FALSE) >>

PkOf(username) == CHOOSE i \in DOMAIN CatalogUsers : CatalogUsers[i].username = username

CatalogAccounts ==
    /\ now = 0
    /\ users = CatalogUsers
    /\ invitations =
           << mark_used(AdminInviteSerializer_create(PkOf("root"), Email("adm", "x"), 1)) >>
    /\ accepts = << [accounts |-> 1, successes |-> 1] >>
    /\ uuids = 1
    /\ resp = Response("none", 0, NoEmail, NoneText, 0, "")
    /\ consumed = {}
    /\ activated = {PkOf("s1"), PkOf("s2"), PkOf("c")}
    /\ reqs = [w \in Workers |-> Idle]

-----------------------------------------------------------------------------
(* get_final_price over drawn inputs *)

MaxRules == 2     \* discount rules stored at once

\* 0.10 and 1000.00
Prices == {10, 100000}
\* 10.00, 15.00 and 150.00: as percentages and as fixed amounts
RuleValues ==
    {<<PERCENT, 1000>>, <<PERCENT, 1500>>, <<FIXED, 1000>>, <<FIXED, 1500>>,
     <<FIXED, 15000>>}
\* no window, a window that opens at 1, a window that closes at 1, inactive
RuleWindows ==
    {<<{}, {}, TRUE>>, <<{1}, {}, TRUE>>, <<{}, {1}, TRUE>>, <<{}, {}, FALSE>>}
PriceInstants == {1, 2}

\* the rules drawn: on product 1 in every variant, on product 2 unconditional
RulePool ==
    {[product |-> 1, tv |-> tv, w |-> w] : tv \in RuleValues, w \in RuleWindows}
        \cup {[product |-> 2, tv |-> tv, w |-> <<{}, {}, TRUE>>] :
                 tv \in {<<PERCENT, 1500>>, <<FIXED, 15000>>}}
RuleSeqs == UNION {[1 .. n -> RulePool] : n \in 0 .. MaxRules}

InitPrice ==
    /\ CatalogAccounts
    /\ \E price \in Prices, rules \in RuleSeqs :
           /\ products = {Product(1, PkOf("s1"), price), Product(2, PkOf("s2"), 100000)}
           /\ discounts =
                  {Discount(i, rules[i].product,
                            IF rules[i].product = 1 THEN PkOf("s1") ELSE PkOf("s2"),
                            rules[i].tv[1], rules[i].tv[2],
                            rules[i].w[1], rules[i].w[2], rules[i].w[3]) :
                      i \in DOMAIN rules}
           /\ ids = [product |-> 2, discount |-> Len(rules)]

ProductRetrieve == \E id \in 1 .. 3 : ProductViewSet_retrieve(id)

PriceClock == \E t \in PriceInstants : Tick(t)

NextPrice ==
    \/ ProductRetrieve
    \/ PriceClock

\* products with drawn prices and discount rules, retrieved as the clock
\* advances
SpecPrice == InitPrice /\ [][NextPrice]_vars

-----------------------------------------------------------------------------
(* Properties of get_final_price, under SpecPrice *)

\* rounding a non-negative amount once, half-up, to cents
RoundHalfUp(x) == (x + AmountScale \div 2) \div AmountScale

\* C11, the stated price of product p: max(base - best, 0) rounded once,
\* where best is the largest amount among the eligible rules, 0 without any
C11_Stated(p) ==
    LET amounts == {IF d.discount_type = PERCENT
                        THEN p.price * d.value
                        ELSE d.value * AmountScale :
                    d \in {x \in discounts : eligible(x, p)}}
        largest == IF amounts = {} THEN 0 ELSE Max(amounts)
        base == p.price * AmountScale
    IN  RoundHalfUp(IF base - largest > 0 THEN base - largest ELSE 0)

C11_Prices == \A p \in products : get_final_price(p) = C11_Stated(p)

C11_Retrieved ==
    resp'.op = "product-retrieve" /\ resp'.status = 200
        /\ ProductViewSet_retrieve(resp'.arg)
        => resp'.detail = C11_Stated(ProductById(resp'.arg))

\* C11: final_price equals max(base_price - best, 0) rounded once, half-up,
\* to 2 decimal places, where best is the maximum over the eligible rules of
\* their amounts and 0 when no rule is eligible; discounts are never summed.
C11_BestSingleDiscount == []C11_Prices /\ [][C11_Retrieved]_vars

\* base 1000.00 with percent 10 and fixed 150, both eligible, has just been
\* answered 850.00
C11_Witness ==
    /\ resp.op = "product-retrieve"
    /\ resp.status = 200
    /\ resp.detail = 85000
    /\ \E p \in products :
           /\ p.id = resp.arg
           /\ p.price = 100000
           /\ get_final_price(p) = 85000
           /\ \E d, e \in discounts :
                  /\ eligible(d, p) /\ d.discount_type = PERCENT /\ d.value = 1000
                  /\ eligible(e, p) /\ e.discount_type = FIXED /\ e.value = 15000

\* C12, the stated condition for rule d to influence the price of p now
C12_Stated(d, p) ==
    /\ d.product = p.id
    /\ d.active = TRUE
    /\ d.start_at = {} \/ \A t \in d.start_at : t <= now
    /\ d.end_at = {} \/ \A t \in d.end_at : t >= now

\* C12: a rule influences final_price at instant now if and only if it
\* belongs to the product, is active, has start_at absent or <= now and end_at
\* absent or >= now, both ends inclusive: the price is at most the base less
\* the amount of such a rule, and a rule that is inactive, not yet started,
\* already ended or of another product never changes the result.
C12_InfluenceExactlyWhenEligible ==
    \A p \in products : \A d \in discounts :
        IF C12_Stated(d, p)
            THEN LET rest == p.price * AmountScale - amount(p, d)
                 IN  get_final_price(p) <= IF rest > 0 THEN RoundHalfUp(rest) ELSE 0
        ELSE get_final_price(p) = FinalPrice(p, discounts \ {d})

\* a product has just been retrieved at the instant the window of its only
\* active rule opens, and the price answered is below the base price
C12_Witness ==
    /\ resp.op = "product-retrieve"
    /\ resp.status = 200
    /\ \E p \in products :
           /\ p.id = resp.arg
           /\ resp.detail < p.price
           /\ resp.detail = get_final_price(p)
           /\ \E d \in discounts :
                  /\ d.product = p.id
                  /\ d.start_at = {now}
                  /\ \A e \in discounts \ {d} : ~eligible(e, p)

\* the values a stored rule is raised to
C13_Raised == {1000, 1500, 15000, 20000}

\* C13: final_price is never negative, never exceeds the base price, and does
\* not increase when the value of any single rule is increased with
\* everything else fixed.
C13_BoundedAndMonotone ==
    \A p \in products :
        /\ get_final_price(p) >= 0
        /\ get_final_price(p) <= p.price
        /\ \A d \in discounts : \A v \in C13_Raised :
               v >= d.value
                   => FinalPrice(p, (discounts \ {d}) \cup {[d EXCEPT !.value = v]})
                          <= get_final_price(p)

\* a product whose eligible rule is worth more than its base price has just
\* been retrieved with the price 0
C13_Witness ==
    /\ resp.op = "product-retrieve"
    /\ resp.status = 200
    /\ resp.detail = 0
    /\ \E p \in products :
           /\ p.id = resp.arg
           /\ get_final_price(p) = 0
           /\ \E d \in discounts : eligible(d, p) /\ amount(p, d) > p.price * AmountScale

-----------------------------------------------------------------------------
(* The catalog: DiscountViewSet                                              *)
(*                                                                           *)
(* The data of a request is a record of sets: {} for a field the request     *)
(* leaves out, {v} for a field it carries.                                   *)

\* Decimal("n"), in hundredths
Decimal(n) == n * 100

Data(product, discount_type, value, start_at, end_at, active) ==
    [product |-> product, discount_type |-> discount_type, value |-> value,
     start_at |-> start_at, end_at |-> end_at, active |-> active]

\* the field validators of the ModelSerializer: product, discount_type and
\* value are required unless the update is partial; the product must exist
DiscountSerializer_fields(data, partial) ==
    IF ~partial /\ (data.product = {} \/ data.discount_type = {} \/ data.value = {})
        THEN "This field is required."
    ELSE IF ~(data.product \subseteq ProductIds)
        THEN "Invalid pk - object does not exist."
    ELSE "ok"

\* mutants of DiscountSerializer.validate: no percent check; no window check
DiscountSerializer_validate_NoPercent(data) ==
    IF data.discount_type = {} THEN "KeyError"
    ELSE IF data.discount_type = {PERCENT} /\ data.value = {} THEN "KeyError"
    ELSE IF data.start_at # {} /\ data.end_at # {}
            /\ \E st \in data.start_at, en \in data.end_at : en < st
        THEN "End date must be after start date."
    ELSE "ok"

\* DiscountSerializer.validate: data["discount_type"] and data["value"] raise
\* KeyError when the field is left out; start_at and end_at are read with get
DiscountSerializer_validate(data) ==
    IF data.discount_type = {} THEN "KeyError"
    ELSE IF data.discount_type = {PERCENT} /\ data.value = {} THEN "KeyError"
    ELSE IF data.discount_type = {PERCENT} /\ \E v \in data.value : v > Decimal(100)
        THEN "Percent discount cannot exceed 100."
    ELSE IF data.start_at # {} /\ data.end_at # {}
            /\ \E st \in data.start_at, en \in data.end_at : en < st
        THEN "End date must be after start date."
    ELSE "ok"

\* serializer.is_valid(raise_exception=True): 0 when valid, else the status
\* and the message
DiscountSerializer_is_valid(data, partial) ==
    LET ferr == DiscountSerializer_fields(data, partial)
        verr == DiscountSerializer_validate(data)
    IN  IF ferr # "ok" THEN <<400, ferr>>
        ELSE IF verr = "KeyError" THEN <<500, verr>>
        ELSE IF verr # "ok" THEN <<400, verr>>
        ELSE <<0, "ok">>

The(S) == CHOOSE x \in S : TRUE

\* ModelSerializer.update: the fields of the data are set on the instance
Updated(d, data) ==
    [d EXCEPT !.product = IF data.product = {} THEN @ ELSE The(data.product),
              !.discount_type = IF data.discount_type = {} THEN @
                                ELSE The(data.discount_type),
              !.value = IF data.value = {} THEN @ ELSE The(data.value),
              !.start_at = IF data.start_at = {} THEN @ ELSE data.start_at,
              !.end_at = IF data.end_at = {} THEN @ ELSE data.end_at,
              !.active = IF data.active = {} THEN @ ELSE The(data.active)]

MaxDiscountRows == 1    \* discounts created in one behaviour

\* the response of a catalog request
CatalogReply(op, actor, id, status, detail) ==
    Reply(Response(op, actor, NoEmail, id, status, detail))

\* POST discounts/
DiscountViewSet_create(actor, data) ==
    /\ actor = Anonymous \/ Authenticated(actor)
    /\ LET v == DiscountSerializer_is_valid(data, FALSE)
       IN  IF actor = Anonymous
               THEN CatalogReply("discount-create", actor, 0, 401,
                       "Authentication credentials were not provided.")
           ELSE IF users[actor].role \notin {"seller", "admin"}
               THEN CatalogReply("discount-create", actor, 0, 403,
                       "Only sellers or admins can create discounts.")
           ELSE IF v[1] # 0
               THEN CatalogReply("discount-create", actor, 0, v[1], v[2])
           ELSE IF ProductById(The(data.product)).owner # actor
                   /\ users[actor].role # "admin"
               THEN CatalogReply("discount-create", actor, 0, 403,
                       "You can only add discounts to your own products.")
           ELSE /\ ids.discount < MaxDiscountRows
                /\ ids' = [ids EXCEPT !.discount = @ + 1]
                /\ discounts' = discounts \cup
                       {Discount(ids.discount + 1, The(data.product), actor,
                                 The(data.discount_type), The(data.value),
                                 data.start_at, data.end_at,
                                 IF data.active = {} THEN TRUE ELSE The(data.active))}
                /\ resp' = Response("discount-create", actor, NoEmail,
                                    ids.discount + 1, 201, "created")
                /\ UNCHANGED <<users, invitations, now, uuids, consumed, activated,
                               accepts, reqs, products>>

\* the check of perform_update and perform_destroy
DiscountViewSet_may_update(actor, d) ==
    actor = d.created_by \/ users[actor].role = "admin"

\* PUT discounts/<id>/ (partial = FALSE) and PATCH discounts/<id>/
DiscountViewSet_update(actor, id, data, partial) ==
    /\ actor = Anonymous \/ Authenticated(actor)
    /\ LET op == IF partial THEN "discount-partial-update" ELSE "discount-update"
           v == DiscountSerializer_is_valid(data, partial)
       IN  IF actor = Anonymous
               THEN CatalogReply(op, actor, id, 401,
                       "Authentication credentials were not provided.")
           ELSE IF id \notin DiscountIds
               THEN CatalogReply(op, actor, id, 404, "Not found.")
           ELSE IF v[1] # 0 THEN CatalogReply(op, actor, id, v[1], v[2])
           ELSE IF ~DiscountViewSet_may_update(actor, DiscountById(id))
               THEN CatalogReply(op, actor, id, 403,
                       "You can only update your own discounts.")
           ELSE /\ discounts' = (discounts \ {DiscountById(id)})
                                    \cup {Updated(DiscountById(id), data)}
                /\ resp' = Response(op, actor, NoEmail, id, 200, "updated")
                /\ UNCHANGED <<users, invitations, now, uuids, consumed, activated,
                               accepts, reqs, products, ids>>

\* DELETE discounts/<id>/
DiscountViewSet_destroy(actor, id) ==
    /\ actor = Anonymous \/ Authenticated(actor)
    /\ IF actor = Anonymous
           THEN CatalogReply("discount-destroy", actor, id, 401,
                   "Authentication credentials were not provided.")
       ELSE IF id \notin DiscountIds
           THEN CatalogReply("discount-destroy", actor, id, 404, "Not found.")
       ELSE IF ~DiscountViewSet_may_update(actor, DiscountById(id))
           THEN CatalogReply("discount-destroy", actor, id, 403,
                   "You can only delete your own discounts.")
       ELSE /\ discounts' = discounts \ {DiscountById(id)}
            /\ resp' = Response("discount-destroy", actor, NoEmail, id, 204, "deleted")
            /\ UNCHANGED <<users, invitations, now, uuids, consumed, activated,
                           accepts, reqs, products, ids>>

\* the requests sent to the discount endpoints.  Those about the value: any
\* of the two products or none, with a type and a value of 50.00 or 150.00,
\* or with one of the two left out, and no window.  Those about the window:
\* product 1 or none, the type fixed with 50.00 or with no value, and a window
\* that opens at 2, closes at 1, opens and closes at 2, or opens at 2 and
\* closes at 1.
DiscountData ==
    {Data(product, tv[1], tv[2], {}, {}, {}) :
        product \in {{}, {1}, {2}},
        tv \in {<<{}, {}>>, <<{PERCENT}, {Decimal(50)}>>, <<{PERCENT}, {Decimal(150)}>>,
                <<{FIXED}, {Decimal(150)}>>, <<{PERCENT}, {}>>, <<{FIXED}, {}>>,
                <<{}, {Decimal(150)}>>}}
    \cup
    {Data(product, {FIXED}, value, w[1], w[2], {}) :
        product \in {{}, {1}},
        value \in {{}, {Decimal(50)}},
        w \in {<<{2}, {}>>, <<{}, {1}>>, <<{2}, {2}>>, <<{2}, {1}>>}}
DiscountActors == {PkOf("s1"), PkOf("s2"), PkOf("adm"), PkOf("c"), Anonymous}
DiscountTargets == 1 .. MaxDiscountRows

\* seller s1 owns product 1, seller s2 owns product 2
InitDiscount ==
    /\ CatalogAccounts
    /\ products = {Product(1, PkOf("s1"), Decimal(1000)),
                   Product(2, PkOf("s2"), Decimal(1000))}
    /\ discounts = {}
    /\ ids = [product |-> 2, discount |-> 0]

DiscountCreate ==
    \E actor \in DiscountActors, data \in DiscountData :
        DiscountViewSet_create(actor, data)

DiscountUpdate ==
    \E actor \in DiscountActors, id \in DiscountTargets, data \in DiscountData :
        DiscountViewSet_update(actor, id, data, FALSE)

DiscountPartialUpdate ==
    \E actor \in DiscountActors, id \in DiscountTargets, data \in DiscountData :
        DiscountViewSet_update(actor, id, data, TRUE)

DiscountDestroy ==
    \E actor \in DiscountActors, id \in DiscountTargets :
        DiscountViewSet_destroy(actor, id)

NextDiscount ==
    \/ DiscountCreate
    \/ DiscountUpdate
    \/ DiscountPartialUpdate
    \/ DiscountDestroy

\* the discount endpoints, called by the two sellers, the admin, the customer
\* and anonymous clients
SpecDiscount == InitDiscount /\ [][NextDiscount]_vars

-----------------------------------------------------------------------------
(* Properties of the discount endpoints, under SpecDiscount *)

C14_PercentBounded ==
    \A d \in discounts : d.discount_type = PERCENT => d.value <= Decimal(100)

\* C14, the steps: a create or update request either is refused with an error
\* status and leaves the stored discounts as they were, or stores rows that
\* are within the bound
C14_Rejected ==
    resp'.op \in {"discount-create", "discount-update", "discount-partial-update"}
        => IF resp'.status \in {200, 201}
               THEN \A d \in discounts' :
                        d.discount_type = PERCENT => d.value <= Decimal(100)
           ELSE resp'.status \in {400, 401, 403, 404, 500} /\ discounts' = discounts

\* C14: after any sequence of discount create, full-update and partial-update
\* requests, every stored percent discount has value <= 100; a request that
\* would store a percent discount with a larger value, one that changes only
\* the type or only the value included, is refused with an error status and
\* leaves the stored discounts unchanged.
C14_PercentAtMost100 == []C14_PercentBounded /\ [][C14_Rejected]_vars

\* an update of a stored discount has just been refused because it would
\* store a percent discount above 100
C14_Witness ==
    /\ resp.op \in {"discount-update", "discount-partial-update"}
    /\ resp.status = 400
    /\ resp.detail = "Percent discount cannot exceed 100."
    /\ resp.arg \in DiscountIds

\* C15: after any sequence of discount create and update requests, every
\* stored discount that has both start_at and end_at has end_at > start_at.
C15_WindowOrdered ==
    \A d \in discounts :
        \A st \in d.start_at, en \in d.end_at : en > st

\* a discount is stored with end_at before start_at
C15_Witness ==
    \E d \in discounts : \E st \in d.start_at, en \in d.end_at : en < st

C16_MayTouch(actor, product) ==
    /\ actor \in UserIds
    /\ \/ ProductById(product).owner = actor
       \/ users[actor].role = "admin"

C16_DiscountOps ==
    {"discount-create", "discount-update", "discount-partial-update",
     "discount-destroy"}

C16_Step ==
    resp'.op \in C16_DiscountOps =>
        /\ \A d \in discounts' \ discounts : C16_MayTouch(resp'.who, d.product)
        /\ \A d \in discounts \ discounts' : C16_MayTouch(resp'.who, d.product)
        /\ resp'.op # "discount-create" /\ resp'.arg \in DiscountIds
               /\ ProductById(DiscountById(resp'.arg).product).owner = resp'.who
           => resp'.status # 403

\* C16: no discount attached to product P is created, changed, re-attached
\* to P from another product or deleted by an actor who is neither P's owner
\* nor an admin, and P's owner is never refused those operations on P's
\* discounts.
C16_OwnerOrAdminOnly == [][C16_Step]_vars

\* a discount has just been moved to a product by a seller who does not own
\* that product
C16_Witness ==
    /\ resp.op \in {"discount-update", "discount-partial-update"}
    /\ resp.status = 200
    /\ resp.arg \in DiscountIds
    /\ users[resp.who].role = "seller"
    /\ ProductById(DiscountById(resp.arg).product).owner # resp.who
    /\ DiscountById(resp.arg).created_by = resp.who

-----------------------------------------------------------------------------
(* The catalog: ProductViewSet *)

MaxProductRows == 2    \* products created in one behaviour

\* the price validators of the ModelSerializer: required unless the update is
\* partial, MinValueValidator(0)
ProductSerializer_is_valid(price, partial) ==
    IF ~partial /\ price = {} THEN <<400, "This field is required.">>
    ELSE IF \E v \in price : v < 0
        THEN <<400, "Ensure this value is greater than or equal to 0.">>
    ELSE <<0, "ok">>

\* POST products/
ProductViewSet_create(actor, price) ==
    /\ actor = Anonymous \/ Authenticated(actor)
    /\ LET v == ProductSerializer_is_valid(price, FALSE)
       IN  IF actor = Anonymous
               THEN CatalogReply("product-create", actor, 0, 401,
                       "Authentication credentials were not provided.")
           ELSE IF v[1] # 0 THEN CatalogReply("product-create", actor, 0, v[1], v[2])
           ELSE IF users[actor].role \notin {"seller", "admin"}
               THEN CatalogReply("product-create", actor, 0, 403,
                       "Only sellers or admins can create products.")
           ELSE /\ ids.product < MaxProductRows
                /\ ids' = [ids EXCEPT !.product = @ + 1]
                /\ products' = products \cup {Product(ids.product + 1, actor, The(price))}
                /\ resp' = Response("product-create", actor, NoEmail,
                                    ids.product + 1, 201, "created")
                /\ UNCHANGED <<users, invitations, now, uuids, consumed, activated,
                               accepts, reqs, discounts>>

\* mutant of the check of perform_update: every authenticated user passes
ProductViewSet_may_update_Any(actor, p) == TRUE

\* the check of perform_update and perform_destroy
ProductViewSet_may_update(actor, p) ==
    actor = p.owner \/ users[actor].role = "admin"

\* PUT products/<id>/ (partial = FALSE) and PATCH products/<id>/
ProductViewSet_update(actor, id, price, partial) ==
    /\ actor = Anonymous \/ Authenticated(actor)
    /\ LET op == IF partial THEN "product-partial-update" ELSE "product-update"
           v == ProductSerializer_is_valid(price, partial)
       IN  IF actor = Anonymous
               THEN CatalogReply(op, actor, id, 401,
                       "Authentication credentials were not provided.")
           ELSE IF id \notin ProductIds
               THEN CatalogReply(op, actor, id, 404, "Not found.")
           ELSE IF v[1] # 0 THEN CatalogReply(op, actor, id, v[1], v[2])
           ELSE IF ~ProductViewSet_may_update(actor, ProductById(id))
               THEN CatalogReply(op, actor, id, 403,
                       "You can only update your own products.")
           ELSE /\ products' = (products \ {ProductById(id)}) \cup
                       {[ProductById(id) EXCEPT
                            !.price = IF price = {} THEN @ ELSE The(price)]}
                /\ resp' = Response(op, actor, NoEmail, id, 200, "updated")
                /\ UNCHANGED <<users, invitations, now, uuids, consumed, activated,
                               accepts, reqs, discounts, ids>>

\* DELETE products/<id>/: the discounts of the product go with it (CASCADE)
ProductViewSet_destroy(actor, id) ==
    /\ actor = Anonymous \/ Authenticated(actor)
    /\ IF actor = Anonymous
           THEN CatalogReply("product-destroy", actor, id, 401,
                   "Authentication credentials were not provided.")
       ELSE IF id \notin ProductIds
           THEN CatalogReply("product-destroy", actor, id, 404, "Not found.")
       ELSE IF ~ProductViewSet_may_update(actor, ProductById(id))
           THEN CatalogReply("product-destroy", actor, id, 403,
                   "You can only delete your own products.")
       ELSE /\ products' = products \ {ProductById(id)}
            /\ discounts' = {d \in discounts : d.product # id}
            /\ resp' = Response("product-destroy", actor, NoEmail, id, 204, "deleted")
            /\ UNCHANGED <<users, invitations, now, uuids, consumed, activated,
                           accepts, reqs, ids>>

\* the requests sent to the product endpoints: by every account and by
\* anonymous clients, with the price 500.00, 20.00, -0.01 or none
ProductActors == DOMAIN CatalogUsers \cup {Anonymous}
ProductPrices == {{}, {Decimal(500)}, {Decimal(20)}, {-1}}
ProductTargets == 1 .. MaxProductRows

InitProduct ==
    /\ CatalogAccounts
    /\ products = {}
    /\ discounts = {}
    /\ ids = [product |-> 0, discount |-> 0]

ProductCreate ==
    \E actor \in ProductActors, price \in ProductPrices :
        ProductViewSet_create(actor, price)

ProductUpdate ==
    \E actor \in ProductActors, id \in ProductTargets, price \in ProductPrices :
        ProductViewSet_update(actor, id, price, FALSE)

ProductPartialUpdate ==
    \E actor \in ProductActors, id \in ProductTargets, price \in ProductPrices :
        ProductViewSet_update(actor, id, price, TRUE)

ProductDestroy ==
    \E actor \in ProductActors, id \in ProductTargets :
        ProductViewSet_destroy(actor, id)

NextProduct ==
    \/ ProductCreate
    \/ ProductUpdate
    \/ ProductPartialUpdate
    \/ ProductDestroy

\* the product endpoints, called by every account and by anonymous clients
SpecProduct == InitProduct /\ [][NextProduct]_vars

-----------------------------------------------------------------------------
(* Properties of the product endpoints, under SpecProduct *)

C17_OwnerRoles ==
    \A p \in products : users[p.owner].role \in {"seller", "admin"}

C17_ProductOps ==
    {"product-create", "product-update", "product-partial-update", "product-destroy"}

\* C17, the steps: a product is created only by a seller or an admin, who
\* becomes its owner; it is changed or deleted only by its owner or an admin;
\* its owner never changes; a refused request leaves the products as they were.
C17_Step ==
    resp'.op \in C17_ProductOps =>
        /\ \A p \in products : \A q \in products' : q.id = p.id => q.owner = p.owner
        /\ \A q \in products' :
               q.id \notin ProductIds
                   => /\ resp'.op = "product-create"
                      /\ q.owner = resp'.who
                      /\ users[resp'.who].role \in {"seller", "admin"}
        /\ \A p \in products \ products' :
               /\ resp'.op # "product-create"
               /\ p.owner = resp'.who \/ users[resp'.who].role = "admin"
        /\ resp'.status \notin {200, 201, 204}
               => resp'.status \in {400, 401, 403, 404} /\ products' = products

\* C17: only an account with role seller or admin can create a product, and
\* only the product's owner or an admin can update or delete it; every
\* product's owner has role seller or admin, the owner of a product never
\* changes, and a rejected request leaves the product set unchanged.
C17_OwnerOrAdminOnly == []C17_OwnerRoles /\ [][C17_Step]_vars

\* a seller has just been refused the update or the deletion of a product of
\* another seller
C17_Witness ==
    /\ resp.op \in {"product-update", "product-partial-update", "product-destroy"}
    /\ resp.status = 403
    /\ resp.arg \in ProductIds
    /\ users[resp.who].role = "seller"
    /\ users[ProductById(resp.arg).owner].role = "seller"
    /\ ProductById(resp.arg).owner # resp.who

-----------------------------------------------------------------------------
(* Registration next to invitations *)

NextRoles ==
    \/ Register
    \/ AdminInvite
    \/ AcceptAdminInvite

\* accounts made by registration and accounts made by accepting invitations
SpecRoles == Init /\ [][NextRoles]_vars

(* Properties of the roles of accounts, under SpecRoles *)

\* account i was created by accepting an invitation
C18_Invited(i) ==
    \E j \in InvByEmail(users[i].email) : accepts[j].accounts >= 1

C18_AdminsInvited ==
    \A i \in UserIds : users[i].role = "admin" => C18_Invited(i)

\* C18, the steps: a registration with a role other than seller or customer
\* is refused and creates no account; one that creates an account gives it the
\* role sent, customer when none was sent.
C18_Step ==
    resp'.op = "register" =>
        \A username \in Usernames, phone \in BOOLEAN,
           password \in {Password("pw1", 8), ShortPassword}, role \in RoleInputs,
           code \in Codes :
            RegisterView_post(username, resp'.email, phone, password, role, code)
                => /\ role \notin {"seller", "customer", NoRole}
                       => resp'.status = 400 /\ users' = users
                   /\ resp'.status = 201
                       => /\ Len(users') = Len(users) + 1
                          /\ users'[Len(users')].role \in {"seller", "customer"}
                          /\ users'[Len(users')].role =
                                 IF role = NoRole THEN "customer" ELSE role
                   /\ resp'.status # 201 => users' = users

\* C18: registration creates an account only with role seller or customer
\* (customer when no role is given); a registration with any other role,
\* admin included, is rejected and creates no account, so every admin-role
\* account was created by accepting an invitation.
C18_RegisterSellerOrCustomer == []C18_AdminsInvited /\ [][C18_Step]_vars

\* a registration as admin has just been refused, and the only admin account
\* is one made by accepting an invitation
C18_Witness ==
    /\ resp.op = "register"
    /\ resp.status = 400
    /\ resp.detail = "You can only register as a seller or customer."
    /\ \E i \in UserIds : users[i].role = "admin" /\ C18_Invited(i)

-----------------------------------------------------------------------------
(* Properties of the OTP session fields, under Spec *)

\* C19: in every reachable state the three session fields of each account
\* move together: the code, the reference identifier and the issued-at
\* timestamp are either all set or all empty.
C19_FieldsTogether ==
    \A i \in UserIds :
        \/ users[i].otp_code = {} /\ users[i].otp_reference_id = {}
               /\ users[i].otp_created_at = {}
        \/ users[i].otp_code # {} /\ users[i].otp_reference_id # {}
               /\ users[i].otp_created_at # {}

\* a registration has just stored an account with a code and without a
\* reference and a timestamp
C19_Witness ==
    /\ resp.op = "register"
    /\ resp.status = 201
    /\ \E i \in ByEmail(resp.email) :
           /\ users[i].otp_code # {}
           /\ users[i].otp_reference_id = {}
           /\ users[i].otp_created_at = {}

\* the references resend-otp or forgot-password returned before the last one;
\* under Spec every uuid4() draw is the reference of a session of the account
\* of the pool, the last draw that of its newest session
C20_Previous == {UuidText(n) : n \in 1 .. uuids - 1}

\* the outcome of a verification of account e that presents reference r and
\* code otp, once a resend-otp or forgot-password has completed
C20_Outcome(e, otp, r) ==
    \A i \in ByEmail(e) :
        uuids >= 1 =>
            /\ r \in C20_Previous \/ (r = NoneText /\ users[i].otp_reference_id # {})
                   => /\ resp'.status = 400
                      /\ resp'.detail = "Invalid or expired OTP session"
                      /\ users' = users
            /\ resp'.status = 200
                   => /\ r = UuidText(uuids)
                      /\ users[i].otp_reference_id = {uuids}
                      /\ users[i].otp_code = {otp}

\* C20: after a completed resend-otp or forgot-password, a verify-otp or
\* reset-password that presents the reference of a previous session fails
\* with the session mismatch, whatever the age of that session and whether or
\* not it was used, and only the newly returned reference with the new code
\* can succeed.
C20_ResendInvalidates ==
    [][ /\ resp'.op = "verify-otp" =>
               \A otp \in Codes :
                   VerifyOTPView_post(resp'.email, otp, resp'.arg)
                       => C20_Outcome(resp'.email, otp, resp'.arg)
        /\ resp'.op = "reset-password" =>
               \A otp \in Codes, new_password \in GoodPasswords :
                   ResetPasswordView_post(resp'.email, otp, resp'.arg, new_password)
                       => C20_Outcome(resp'.email, otp, resp'.arg)
      ]_vars

\* the reference of the session a second resend replaced has just been
\* presented with the code its account holds, and refused
C20_Witness ==
    /\ resp.op \in {"verify-otp", "reset-password"}
    /\ resp.status = 400
    /\ resp.detail = "Invalid or expired OTP session"
    /\ resp.arg \in C20_Previous
    /\ \E i \in ByEmail(resp.email) : users[i].otp_reference_id = {uuids}

-----------------------------------------------------------------------------
(* The OTP session step by step: generate (resend-otp, forgot-password) is   *)
(* a read of the account and a save of the three session columns; a          *)
(* verification (verify-otp, reset-password) is a read of the account, the   *)
(* check of User.verify_otp on the object in memory, and a save of four      *)
(* columns.  Other requests are handled between the steps.                   *)

\* how many sessions the generate requests of SpecSession issue
MaxSessions == 2

GenerateOps == {"resend-otp", "forgot-password"}
VerifyOps == {"verify-otp", "reset-password"}

\* User.objects.get(email=email), then the new code, reference and timestamp
\* are set on the object in memory
GenerateRead(w, op, email, code) ==
    /\ reqs[w] = Idle
    /\ IF ByEmail(email) = {}
           THEN Reply(Response(op, 0, email, NoneText, 404, "User not found"))
       ELSE /\ uuids < MaxSessions
            /\ uuids' = uuids + 1
            /\ reqs' = [reqs EXCEPT ![w] =
                   [op |-> op, pc |-> "save", pk |-> TheUser(email),
                    user |-> NewSession(users[TheUser(email)], code, uuids + 1, now)]]
            /\ UNCHANGED <<products, discounts, ids, users, invitations, now, resp,
                           consumed, activated, accepts>>

\* save(update_fields=["otp_code", "otp_reference_id", "otp_created_at"]):
\* the three columns of the stored row are written from the object in memory
GenerateSave(w) ==
    /\ reqs[w] # Idle
    /\ reqs[w].op \in GenerateOps
    /\ users' = [users EXCEPT ![reqs[w].pk] =
                    [@ EXCEPT !.otp_code = reqs[w].user.otp_code,
                              !.otp_reference_id = reqs[w].user.otp_reference_id,
                              !.otp_created_at = reqs[w].user.otp_created_at]]
    /\ resp' = Response(reqs[w].op, 0, reqs[w].user.email,
                        Str(reqs[w].user.otp_reference_id), 200, "OTP sent")
    /\ reqs' = [reqs EXCEPT ![w] = Idle]
    /\ UNCHANGED <<products, discounts, ids, invitations, now, uuids, consumed,
                   activated, accepts>>

\* the required-fields test of VerifyOTPView.post and User.objects.get(email=email)
VerifyRead(w, op, email, otp, reference_id, new_password) ==
    /\ reqs[w] = Idle
    /\ IF op = "verify-otp"
          /\ (email = NoEmail \/ otp = "" \/ reference_id = EmptyText)
           THEN Reply(Response(op, 0, email, reference_id, 400,
                               "Email, OTP, and reference_id are required."))
       ELSE IF ByEmail(email) = {}
           THEN Reply(Response(op, 0, email, reference_id, 404, "User not found"))
       ELSE /\ reqs' = [reqs EXCEPT ![w] =
                   [op |-> op, pc |-> "check", pk |-> TheUser(email),
                    user |-> users[TheUser(email)], otp |-> otp,
                    reference_id |-> reference_id, new_password |-> new_password]]
            /\ UNCHANGED <<products, discounts, ids, users, invitations, now, uuids,
                           resp, consumed, activated, accepts>>

\* user.verify_otp(otp, reference_id) on the object read earlier
VerifyCheck(w) ==
    /\ reqs[w] # Idle
    /\ reqs[w].op \in VerifyOps
    /\ reqs[w].pc = "check"
    /\ LET result == verify_otp(reqs[w].user, reqs[w].otp, reqs[w].reference_id)
       IN  IF ~result[1]
               THEN /\ resp' = Response(reqs[w].op, 0, reqs[w].user.email,
                                        reqs[w].reference_id, 400, result[2])
                    /\ reqs' = [reqs EXCEPT ![w] = Idle]
                    /\ UNCHANGED <<products, discounts, ids, users, invitations, now,
                                   uuids, consumed, activated, accepts>>
           ELSE /\ reqs' = [reqs EXCEPT ![w].pc = "write"]
                /\ UNCHANGED <<products, discounts, ids, users, invitations, now,
                               uuids, resp, consumed, activated, accepts>>

\* save(update_fields=[...]): verify-otp writes is_active and the three session
\* columns, reset-password writes password and the three session columns
VerifyWrite(w) ==
    /\ reqs[w] # Idle
    /\ reqs[w].op \in VerifyOps
    /\ reqs[w].pc = "write"
    /\ users' = [users EXCEPT ![reqs[w].pk] =
                    IF reqs[w].op = "verify-otp"
                        THEN ClearOtp([@ EXCEPT !.is_active = TRUE])
                    ELSE ClearOtp([@ EXCEPT !.password = reqs[w].new_password])]
    /\ resp' = Response(reqs[w].op, 0, reqs[w].user.email, reqs[w].reference_id, 200,
                        IF reqs[w].op = "verify-otp"
                            THEN "Account verified successfully"
                        ELSE "Password reset successful")
    /\ consumed' = Consume(reqs[w].user)
    /\ activated' = IF reqs[w].op = "verify-otp"
                        THEN activated \cup {reqs[w].pk} ELSE activated
    /\ reqs' = [reqs EXCEPT ![w] = Idle]
    /\ UNCHANGED <<products, discounts, ids, invitations, now, uuids, accepts>>

\* the state after one customer has registered, so that there is an account
\* to hold a session
InitSession ==
    /\ users = << NewUser("root", SuperEmail, Password("pw1", 8), "customer",
                          FALSE, TRUE, TRUE),
                  RegisterSerializer_create(
                      NewUser("a", Email("a", "x"), Password("pw1", 8), "customer",
                              TRUE, FALSE, FALSE), "123456") >>
    /\ invitations = << >>
    /\ now = 0
    /\ uuids = 0
    /\ resp = Response("register", 0, Email("a", "x"), NoneText, 201, "created")
    /\ consumed = {}
    /\ activated = {}
    /\ accepts = << >>
    /\ reqs = [w \in Workers |-> Idle]
    /\ products = {}
    /\ discounts = {}
    /\ ids = [product |-> 0, discount |-> 0]

\* the references a verification presents: the ones the generates issue
SessionRefs == {UuidText(n) : n \in 1 .. MaxSessions}

GenerateBegin ==
    \E w \in Workers, op \in GenerateOps :
        GenerateRead(w, op, Email("a", "x"), "654321")

GenerateEnd == \E w \in Workers : GenerateSave(w)

VerifyBegin ==
    \E w \in Workers, op \in VerifyOps, otp \in Codes,
       reference_id \in SessionRefs, new_password \in GoodPasswords :
        /\ op = "verify-otp" => new_password = Password("pw1", 8)
        /\ VerifyRead(w, op, Email("a", "x"), otp, reference_id, new_password)

VerifyDecide == \E w \in Workers : VerifyCheck(w)

VerifyEnd == \E w \in Workers : VerifyWrite(w)

NextSession ==
    \/ GenerateBegin
    \/ GenerateEnd
    \/ VerifyBegin
    \/ VerifyDecide
    \/ VerifyEnd

\* generate and verification requests on one account, interleaved at their
\* reads and writes
SpecSession == InitSession /\ [][NextSession]_vars

-----------------------------------------------------------------------------
\* the three session columns of a row
SessionOf(u) == <<u.otp_code, u.otp_reference_id, u.otp_created_at>>

\* worker w answers its request in this step
Finishes(w) == reqs[w] # Idle /\ reqs'[w] = Idle

\* C21, first part: the save that ends a generate request leaves the session
\* of that request in storage, whatever other generate requests wrote before
\* it (the last writer wins).
C21_LastWriteWins ==
    [][\A w \in Workers :
          (Finishes(w) /\ reqs[w].op \in GenerateOps) =>
              SessionOf(users'[reqs[w].pk]) = SessionOf(reqs[w].user)]_vars

\* the reference worker w presents was issued by a generate and is no longer
\* the stored one: a generate has written a newer session over it
C21_Overwritten(w) ==
    /\ reqs[w] # Idle
    /\ reqs[w].op \in VerifyOps
    /\ reqs[w].reference_id \in {UuidText(n) : n \in 1 .. uuids}
    /\ users[reqs[w].pk].otp_reference_id # {}
    /\ Str(users[reqs[w].pk].otp_reference_id) # reqs[w].reference_id

\* C21: under every interleaving of generate requests with a verification
\* (read, check, write), the last generate to save owns the stored session,
\* and a verification that presents a reference which a generate has already
\* overwritten in storage is answered "Invalid or expired OTP session" and
\* leaves the stored account, the newer session included, as it was.
C21_StaleVerifyFails ==
    [][\A w \in Workers :
          /\ (Finishes(w) /\ reqs[w].op \in GenerateOps) =>
                 SessionOf(users'[reqs[w].pk]) = SessionOf(reqs[w].user)
          /\ (Finishes(w) /\ C21_Overwritten(w)) =>
                 /\ resp'.status = 400
                 /\ resp'.detail = "Invalid or expired OTP session"
                 /\ users' = users]_vars

\* C21, the part about storage alone: such a verification never clears or
\* alters the newer session
C21_NewerSessionKept ==
    [][\A w \in Workers :
          (Finishes(w) /\ C21_Overwritten(w)) => users' = users]_vars

\* a verification has passed its check on the session it read, and a generate
\* has since stored a newer session
C21_Witness ==
    \E w \in Workers :
        /\ C21_Overwritten(w)
        /\ reqs[w].pc = "write"
        /\ Str(reqs[w].user.otp_reference_id) = reqs[w].reference_id
        /\ reqs[w].user.otp_reference_id # {}

-----------------------------------------------------------------------------
\* C22: an OTP session is single-use under concurrency: of the verify-otp
\* and reset-password requests that present the correct code and reference
\* of one session, at most one is answered 200, under every interleaving of
\* their read, check and write steps: no request succeeds on a session that
\* a successful verification has already consumed.
C22_SingleUse ==
    [][\A w \in Workers :
          (Finishes(w) /\ reqs[w].op \in VerifyOps /\ resp'.status = 200) =>
              reqs[w].user.otp_reference_id \cap consumed = {}]_vars

\* two verifications have both passed the check on the same session
C22_Witness ==
    \E v, w \in Workers :
        /\ v # w
        /\ reqs[v] # Idle /\ reqs[v].op \in VerifyOps /\ reqs[v].pc = "write"
        /\ reqs[w] # Idle /\ reqs[w].op = "reset-password" /\ reqs[w].pc = "write"
        /\ reqs[v].reference_id = reqs[w].reference_id
        /\ reqs[v].otp = reqs[w].otp
        /\ reqs[v].new_password # reqs[w].new_password

-----------------------------------------------------------------------------
\* the answers of a rejected verification: required fields missing, unknown
\* account, session mismatch, code mismatch, expired
C23_Rejections ==
    {"Email, OTP, and reference_id are required.", "User not found",
     "Invalid or expired OTP session", "Invalid OTP", "OTP expired"}

\* the account's session answers 200 to a verify-otp that presents its code
\* and reference now
C23_Usable(u) ==
    /\ u.otp_code # {}
    /\ u.otp_reference_id # {}
    /\ \E otp \in u.otp_code : verify_otp(u, otp, Str(u.otp_reference_id))[1]

\* C23: every rejected verify-otp or reset-password request (unknown account,
\* session mismatch, code mismatch or expired) leaves every account as it
\* was (active flag, password and the three OTP fields), so a session that was
\* usable before the rejected request is usable after it; and a verify-otp or
\* reset-password request that is not answered 200 is answered with one of the
\* rejections.
C23_RejectedChangesNothing ==
    [][(resp'.op \in VerifyOps /\ resp' # resp) =>
          \/ resp'.status = 200
          \/ /\ resp'.status \in {400, 404}
             /\ resp'.detail \in C23_Rejections
             /\ users' = users
             /\ \A i \in UserIds : C23_Usable(users[i]) => C23_Usable(users'[i])]_vars

\* a verify-otp with a wrong code was rejected and the account's session
\* is still the live one
C23_Witness ==
    /\ resp.op = "verify-otp"
    /\ resp.status = 400
    /\ resp.detail = "Invalid OTP"
    /\ ByEmail(resp.email) # {}
    /\ C23_Usable(users[TheUser(resp.email)])
    /\ Str(users[TheUser(resp.email)].otp_reference_id) = resp.arg

-----------------------------------------------------------------------------
\* C24: verify-otp and reset-password never succeed for an account whose
\* stored reference identifier or issued-at timestamp is empty (the state
\* right after registration, and the state after a successful verification),
\* whatever non-empty reference text and code are submitted: every request
\* answered 200 found both the reference and the timestamp set.
C24_NeedsIssuedSession ==
    [][(resp'.op \in VerifyOps /\ resp'.status = 200 /\ users' # users) =>
          /\ ByEmail(resp'.email) # {}
          /\ users[TheUser(resp'.email)].otp_reference_id # {}
          /\ users[TheUser(resp'.email)].otp_created_at # {}]_vars

\* C24, the state after a successful verification: no request succeeds on an
\* account whose three OTP fields are empty
C24_ClearedNeverAccepted ==
    [][(resp'.op \in VerifyOps /\ resp'.status = 200 /\ users' # users) =>
          /\ ByEmail(resp'.email) # {}
          /\ users[TheUser(resp'.email)].otp_code # {}]_vars

\* a verify-otp that presented the text "None" as its reference was answered
\* 200 and activated the account
C24_Witness ==
    /\ resp.op = "verify-otp"
    /\ resp.status = 200
    /\ resp.arg = NoneText
    /\ ByEmail(resp.email) # {}
    /\ users[TheUser(resp.email)].is_active
    /\ consumed = {}

-----------------------------------------------------------------------------
\* no two accounts share an email or a username
C25_Unique ==
    \A i, k \in UserIds :
        i # k => /\ users[i].email # users[k].email
                 /\ users[i].username # users[k].username

\* the accept answered in this step presented the token of invitation j,
\* valid when the request arrived, with an acceptable password
C25_ValidAccept(j) ==
    /\ resp'.op = "accept"
    /\ resp' # resp
    /\ j \in InvByToken(resp'.arg)
    /\ is_valid(invitations[j])
    /\ resp'.detail # "This password is too short."

\* the accept created the account of invitation j and marked j used
C25_Created(j) ==
    /\ resp'.status = 201
    /\ Len(users') = Len(users) + 1
    /\ LET u == users'[Len(users')]
       IN  /\ u.is_active
           /\ u.role = "admin"
           /\ ~u.is_superuser
           /\ u.email = invitations[j].email
           /\ u.username = invitations[j].email.local
    /\ invitations'[j].is_used

\* C25: every accept that presents the token of a valid invitation (unused,
\* unexpired) with an acceptable password succeeds: it creates an active
\* admin-role, non-superuser account with the invitation's email and the
\* email's local part as username, and marks the invitation used, also when
\* another account already has that email or username; and no two accounts
\* ever share an email or a username.
C25_ValidAcceptSucceeds ==
    /\ []C25_Unique
    /\ [][\A j \in InvIds : C25_ValidAccept(j) => C25_Created(j)]_vars

\* C25, the part about the table alone: emails and usernames stay unique
C25_AccountsUnique == []C25_Unique

\* an invitation is valid while another account already has the username its
\* accept would derive, and an accept of it has been refused
C25_Witness ==
    /\ resp.op = "accept"
    /\ resp.status = 500
    /\ \E j \in InvByToken(resp.arg) :
          /\ is_valid(invitations[j])
          /\ ByEmail(invitations[j].email) = {}
          /\ ByUsername(invitations[j].email.local) # {}

====
